---- MODULE Spec2Model ----
(***************************************************************************)
(* Model of the client-log provider: the local log table (db.logs), the    *)
(* severity gate of log(), and the push synchronisation run                *)
(* (pushToServer in the current provider, pushSync in the earlier one)     *)
(* with its single-flight flag, its chunking and its per-chunk requests.   *)
(***************************************************************************)
EXTENDS Integers, Sequences, FiniteSets, TLC

(* ----------------------------- bounds ---------------------------------- *)
\* number of distinct uuids the application may use
MaxUuid == 3
\* largest Config.chunkSize drawn for the initial configuration
MaxChunkSize == 2
\* number of pushToServer invocations that can be suspended at once
MaxRuns == 2
\* longest listing and largest chunkSize handed to chunkRecords in SpecChunk
MaxItems == 25
MaxItemsChunkSize == 10
MaxEffectRuns == 2
MaxIterations == 3
MaxNegative == 1

(* ------------------------ program constants ---------------------------- *)
DEBUG == 10
INFO == 20
WARNING == 30

Uuids == 1..MaxUuid
\* two instants, an earlier and a later one: rows are listed in an order that
\* differs from the order of their uuids, and rows can share a timestamp
Timestamps == {1, 2}
LogLevels == {DEBUG, INFO}
LogTypes == {"LOG", "CONFIG"}
Slots == 1..MaxRuns
Impls == {"pushToServer", "pushSync"}

\* type Log: the fields the provider reads (uuid, level, timestamp)
Log == [uuid : Uuids, timestamp : Timestamps, level : LogLevels]

\* type Config (timeout only sets the timer period and is not represented)
Config == [sync : BOOLEAN, logLevel : {INFO}, chunkSize : 1..MaxChunkSize]

VARIABLES
    impl,          \* which provider is mounted: its sync routine
    logUrl,        \* TRUE iff a push endpoint is given in the server settings
    config,        \* the provider's Config state
    ready,         \* the provider's ready state (db 'ready' event seen)
    dbLogs,        \* the rows of table db.logs
    pendingChange, \* liveQuery has an emission to deliver to its subscriber
    isInSync,      \* the sync-in-progress flag
    runs,          \* the suspended invocations of the sync routine
    failed,        \* rows of the chunks whose request failed in the latest run
    lastLog,       \* how the latest observed call of log() ended ("none": no call observed)
    localStorage,  \* the items stored under the key 'client-log-config': none or one
    effects        \* the provider's life cycle, the triggers its effects have installed
                   \* and how often the effects have run (counted up to MaxEffectRuns)

vars == <<impl, logUrl, config, ready, dbLogs, pendingChange, isInSync, runs, failed, lastLog, effects, localStorage>>

(* ----------------------------- helpers --------------------------------- *)
Range(s) == {s[i] : i \in 1..Len(s)}

Min(a, b) == IF a < b THEN a ELSE b

Max(a, b) == IF a > b THEN a ELSE b

\* index order of db.logs.orderBy('timestamp'): the index key, then the primary key
Before(a, b) ==
    \/ a.timestamp < b.timestamp
    \/ a.timestamp = b.timestamp /\ a.uuid < b.uuid

RECURSIVE orderByTimestamp(_)
orderByTimestamp(rows) ==
    IF rows = {} THEN <<>>
    ELSE LET first == CHOOSE r \in rows : \A o \in rows \ {r} : Before(r, o)
         IN <<first>> \o orderByTimestamp(rows \ {first})

\* Array.prototype.slice(start, start + deleteCount): the array is left whole
SliceOnly(items, start, deleteCount) ==
    LET len == Len(items)
        from == IF start < 0 THEN Max(len + start, 0) ELSE Min(start, len)
        cnt == Min(Max(deleteCount, 0), len - from)
    IN [removed |-> SubSeq(items, from + 1, from + cnt), left |-> items]

\* Array.prototype.splice(start, deleteCount): the removed elements and the
\* array that is left (start is 0-based)
Splice(items, start, deleteCount) ==
    LET len == Len(items)
        from == IF start < 0 THEN Max(len + start, 0) ELSE Min(start, len)
        cnt == Min(Max(deleteCount, 0), len - from)
    IN [removed |-> SubSeq(items, from + 1, from + cnt),
        left |-> SubSeq(items, 1, from) \o SubSeq(items, from + cnt + 1, len)]

\* the for loop of chunkRecords, from index i on
RECURSIVE chunkLoop(_, _, _, _)
chunkLoop(items, chunkSize, i, chunks) ==
    IF i < Len(items)
    THEN LET s == Splice(items, i, i + chunkSize)
         IN chunkLoop(s.left, chunkSize, i + chunkSize, Append(chunks, s.removed))
    ELSE chunks

chunkRecords(items, chunkSize) == chunkLoop(items, chunkSize, 0, <<>>)

\* the body of the POST request of one chunk
RequestBody(logs) ==
    IF impl = "pushSync" THEN <<logs[1]>> ELSE logs

\* a slot holding no suspended invocation
NoRun == [pc |-> "idle", listing |-> <<>>, batches |-> <<>>]

\* run k in the for loop of chunkRecords, which it has entered on the listing
Chunking(listing) ==
    [pc |-> "chunking", listing |-> listing, batches |-> <<>>,
     items |-> listing, i |-> 0, chunks |-> <<>>]

Active(k) == runs[k].pc \in {"read", "chunking", "send"}

FreeSlots == {k \in Slots : runs[k].pc = "idle"}

\* the requests array: one request per chunk, each started in the loop
Requests(chunks) ==
    [i \in 1..Len(chunks) |-> [logs |-> chunks[i], st |-> "fetch", res |-> "none"]]

\* a cleanup that clears the table instead of deleting the chunk's keys
DeleteKeysOfTable(logs) == {r.uuid : r \in dbLogs}

\* the uuids handed to bulkDelete by the request of a chunk
DeleteKeys(logs) == {logs[i].uuid : i \in 1..Len(logs)}

\* Promise.all(requests) is fulfilled
AllSettled(k) == \A i \in 1..Len(runs[k].batches) : runs[k].batches[i].st = "done"

\* the rows of the chunks of run k whose request threw or was answered not ok
FailedRows(k) ==
    UNION {Range(runs[k].batches[i].logs) :
             i \in {j \in 1..Len(runs[k].batches) :
                        runs[k].batches[j].res \in {"notOk", "throw"}}}

\* what a trigger calls: the sync routine of one render, which has captured
\* the Config and the server settings of that render
Closure(c, url) == [config |-> c, logUrl |-> url]

\* an effect that returns no cleanup: what it installed stays
CleanupNone(installed) == installed

\* the cleanup an effect returns, liveLogs.unsubscribe() or
\* clearInterval(interval): it releases what the effect's latest run installed
Cleanup(installed) ==
    IF installed = <<>> THEN installed ELSE SubSeq(installed, 1, Len(installed) - 1)

\* the live-sync effect and the push-interval effect run for a render with
\* Config c and server settings url: the cleanup of their previous run, then
\* subscribe({next: pushToServer}) and setInterval(..., config.timeout)
runEffects(c, url) ==
    [phase |-> "mounted",
     subs |-> Append(Cleanup(effects.subs), Closure(c, url)),
     timers |-> Append(Cleanup(effects.timers), Closure(c, url)),
     count |-> Min(effects.count + 1, MaxEffectRuns)]

\* the triggers of a mounted provider whose effects have run
Installed(c, url) ==
    [phase |-> "mounted", subs |-> <<Closure(c, url)>>, timers |-> <<Closure(c, url)>>,
     count |-> 1]

(* ------------------------------ Init ----------------------------------- *)
Init ==
    /\ impl \in Impls
    /\ logUrl \in BOOLEAN
    /\ config \in Config
    /\ ready = FALSE
    /\ dbLogs = {}
    /\ pendingChange = TRUE
    /\ isInSync = FALSE
    /\ runs = [k \in Slots |-> NoRun]
    /\ failed = {}
    /\ lastLog = "none"
    /\ effects = Installed(config, logUrl)
    /\ localStorage = {}

(* ----------------------------- actions --------------------------------- *)
\* db.on('ready', ...)
dbReady ==
    /\ ~ready
    /\ ready' = TRUE
    /\ UNCHANGED <<impl, logUrl, config, dbLogs, pendingChange, isInSync, runs, failed, lastLog, effects, localStorage>>

\* a put in place of the add: the stored row of the same key is replaced
addOverwrite(data) ==
    /\ dbLogs' = {r \in dbLogs : r.uuid # data.uuid} \cup {data}
    /\ pendingChange' = TRUE

\* db.logs.add(data): rejected when the primary key is already stored
add(data) ==
    IF \E r \in dbLogs : r.uuid = data.uuid
    THEN UNCHANGED <<dbLogs, pendingChange>>
    ELSE /\ dbLogs' = dbLogs \cup {data}
         /\ pendingChange' = TRUE

\* log() without its severity gate
AdmitAll(data) == TRUE

\* the severity gate of log() with a strict comparison
AdmitAbove(data) == data.level > config.logLevel

\* the severity gate of log()
Admit(data) == data.level >= config.logLevel

\* log() without its readiness test
logUnguarded(data, type) ==
    /\ IF type = "LOG" /\ Admit(data)
       THEN add(data)
       ELSE UNCHANGED <<dbLogs, pendingChange>>
    /\ UNCHANGED <<impl, logUrl, config, ready, isInSync, runs, failed, effects, localStorage>>

\* log(data, type)
log(data, type) ==
    /\ IF ready /\ type = "LOG" /\ Admit(data)
       THEN add(data)
       ELSE UNCHANGED <<dbLogs, pendingChange>>
    /\ UNCHANGED <<impl, logUrl, config, ready, isInSync, runs, failed, effects, localStorage>>

\* a call of log() by the application, its outcome not observed
submit(data, type) == log(data, type) /\ UNCHANGED <<lastLog, effects, localStorage>>

\* the routine without its first guard
SyncRunningUnchecked == FALSE

\* the guards of the sync routine, in the order the code tests them
SyncRunning == isInSync

\* the routine without its test of Config.sync
SyncDisabledUnchecked == FALSE

SyncDisabled == ~config.sync

NoEndpoint == impl = "pushSync" /\ ~logUrl

\* a call of the sync routine, up to its first await
pushToServer ==
    IF SyncRunning \/ SyncDisabled \/ NoEndpoint \/ FreeSlots = {}
    THEN UNCHANGED <<isInSync, runs>>
    ELSE LET k == CHOOSE s \in FreeSlots : \A o \in FreeSlots : s <= o
         IN /\ isInSync' = TRUE
            /\ runs' = [runs EXCEPT ![k] = [NoRun EXCEPT !.pc = "read"]]

\* a subscriber that takes the notification and does not call the routine
liveQueryNextIgnored ==
    /\ pendingChange
    /\ pendingChange' = FALSE
    /\ UNCHANGED <<impl, logUrl, config, ready, dbLogs, isInSync, runs, failed, lastLog, effects, localStorage>>

\* the liveQuery subscriber: next: pushToServer
liveQueryNext ==
    /\ effects.subs # <<>>
    /\ pendingChange
    /\ pendingChange' = FALSE
    /\ pushToServer
    /\ UNCHANGED <<impl, logUrl, config, ready, dbLogs, failed, lastLog, effects, localStorage>>

\* the push interval callback
pushTimer ==
    /\ effects.timers # <<>>
    /\ pushToServer
    /\ UNCHANGED <<impl, logUrl, config, ready, dbLogs, pendingChange, failed, lastLog, effects, localStorage>>

\* a routine that returns with the flag still set
SyncLeftSet == TRUE

\* the flag once the run is over
SyncDone == FALSE

\* await db.logs.orderBy('timestamp').toArray() is fulfilled: the run goes on
\* to the chunking and starts every request. With a chunkSize of 1 or more the
\* loop of chunkRecords is run to its end within the step; with any other it
\* is followed one iteration at a time (chunkStep).
readListing(k) ==
    /\ runs[k].pc = "read"
    /\ LET listing == orderByTimestamp(dbLogs)
       IN IF listing = <<>>
          THEN /\ isInSync' = SyncDone
               /\ runs' = [runs EXCEPT ![k] = NoRun]
          ELSE /\ runs' = [runs EXCEPT ![k] =
                       IF config.chunkSize >= 1
                       THEN [pc |-> "send", listing |-> listing,
                             batches |-> Requests(chunkRecords(listing, config.chunkSize))]
                       ELSE Chunking(listing)]
               /\ UNCHANGED isInSync
    /\ failed' = {}
    /\ UNCHANGED <<impl, logUrl, config, ready, dbLogs, pendingChange, lastLog, effects, localStorage>>

\* the toArray() promise is rejected: the routine's promise is rejected
readFails(k) ==
    /\ runs[k].pc = "read"
    /\ runs' = [runs EXCEPT ![k].pc = "rejected"]
    /\ UNCHANGED <<impl, logUrl, config, ready, dbLogs, pendingChange, isInSync, failed, lastLog, effects, localStorage>>

FetchOutcomes == {"ok", "notOk", "throw"}

\* the request without the response.ok test before the cleanup
fetchSettlesNoOkTest(k, i, outcome) ==
    /\ runs[k].pc = "send"
    /\ i \in 1..Len(runs[k].batches)
    /\ runs[k].batches[i].st = "fetch"
    /\ runs' = [runs EXCEPT ![k].batches[i] =
                  [@ EXCEPT !.st = IF outcome = "throw" THEN "done" ELSE "delete",
                            !.res = outcome]]
    /\ UNCHANGED <<impl, logUrl, config, ready, dbLogs, pendingChange, isInSync, failed, lastLog, effects, localStorage>>

\* the request without a handler: a throw rejects Promise.all and the routine
fetchSettlesUncaught(k, i, outcome) ==
    /\ runs[k].pc = "send"
    /\ i \in 1..Len(runs[k].batches)
    /\ runs[k].batches[i].st = "fetch"
    /\ runs' = [runs EXCEPT ![k] =
                  [@ EXCEPT !.pc = IF outcome = "throw" THEN "rejected" ELSE "send",
                            !.batches[i] =
                                [@ EXCEPT !.st = IF outcome = "ok" THEN "delete" ELSE "done",
                                          !.res = outcome]]]
    /\ UNCHANGED <<impl, logUrl, config, ready, dbLogs, pendingChange, isInSync, failed, lastLog, effects, localStorage>>

\* the request of chunk i is answered (response.ok or not) or throws
fetchSettles(k, i, outcome) ==
    /\ runs[k].pc = "send"
    /\ i \in 1..Len(runs[k].batches)
    /\ runs[k].batches[i].st = "fetch"
    /\ runs' = [runs EXCEPT ![k].batches[i] =
                  [@ EXCEPT !.st = IF outcome = "ok" THEN "delete" ELSE "done",
                            !.res = outcome]]
    /\ UNCHANGED <<impl, logUrl, config, ready, dbLogs, pendingChange, isInSync, failed, lastLog, effects, localStorage>>

\* await db.logs.bulkDelete(logs.map(l => l.uuid)) of chunk i settles
bulkDelete(k, i, done) ==
    /\ runs[k].pc = "send"
    /\ i \in 1..Len(runs[k].batches)
    /\ runs[k].batches[i].st = "delete"
    /\ IF done
       THEN /\ dbLogs' = {r \in dbLogs : r.uuid \notin DeleteKeys(runs[k].batches[i].logs)}
            /\ pendingChange' = (pendingChange \/ dbLogs' # dbLogs)
            /\ runs' = [runs EXCEPT ![k].batches[i].st = "done"]
       ELSE /\ runs' = [runs EXCEPT ![k].batches[i] =
                         [@ EXCEPT !.st = "done", !.res = "deleteFailed"]]
            /\ UNCHANGED <<dbLogs, pendingChange>>
    /\ UNCHANGED <<impl, logUrl, config, ready, isInSync, failed, lastLog, effects, localStorage>>

\* the routine clearing the flag without awaiting its requests
runEndNoAwait(k) ==
    /\ runs[k].pc = "send"
    /\ isInSync
    /\ isInSync' = FALSE
    /\ UNCHANGED <<impl, logUrl, config, ready, dbLogs, pendingChange, runs, failed, lastLog, effects, localStorage>>

\* a routine that goes on only when every request of the run was answered ok
runEndIfAllOk(k) ==
    /\ runs[k].pc = "send"
    /\ \A i \in 1..Len(runs[k].batches) :
          runs[k].batches[i].st = "done" /\ runs[k].batches[i].res = "ok"
    /\ isInSync' = SyncDone
    /\ failed' = FailedRows(k)
    /\ runs' = [runs EXCEPT ![k] = NoRun]
    /\ UNCHANGED <<impl, logUrl, config, ready, dbLogs, pendingChange, lastLog, effects, localStorage>>

\* a routine that remembers the triggers it has turned down and, at its end,
\* runs again when the table holds rows
runEndRerun(k) ==
    /\ runs[k].pc = "send"
    /\ AllSettled(k)
    /\ isInSync' = (dbLogs # {})
    /\ failed' = FailedRows(k)
    /\ runs' = [runs EXCEPT ![k] = IF dbLogs # {} THEN [NoRun EXCEPT !.pc = "read"] ELSE NoRun]
    /\ UNCHANGED <<impl, logUrl, config, ready, dbLogs, pendingChange, lastLog, effects, localStorage>>

\* await Promise.all(requests) returns: isInSync = false
runEnd(k) ==
    /\ runs[k].pc = "send"
    /\ AllSettled(k)
    /\ isInSync' = SyncDone
    /\ failed' = FailedRows(k)
    /\ runs' = [runs EXCEPT ![k] = NoRun]
    /\ UNCHANGED <<impl, logUrl, config, ready, dbLogs, pendingChange, lastLog, effects, localStorage>>

Next ==
    \/ dbReady
    \/ \E data \in Log, type \in LogTypes : submit(data, type)
    \/ liveQueryNext
    \/ pushTimer
    \/ \E k \in Slots : readListing(k)
    \/ \E k \in Slots : readFails(k)
    \/ \E k \in Slots, i \in 1..MaxUuid, outcome \in FetchOutcomes : fetchSettles(k, i, outcome)
    \/ \E k \in Slots, i \in 1..MaxUuid, done \in BOOLEAN : bulkDelete(k, i, done)
    \/ \E k \in Slots : runEnd(k)

Spec == Init /\ [][Next]_vars

(* ---------------- chunkRecords on the listings of a run ---------------- *)
\* n rows of distinct timestamps, in uuid order or against it
Rows(n, rev) ==
    {[uuid |-> u, timestamp |-> IF rev THEN n + 1 - u ELSE u, level |-> INFO] : u \in 1..n}

\* a run that has set the flag and awaits its listing, on a table of up to
\* MaxItems rows and with any chunkSize from 1 to MaxItemsChunkSize
ChunkInit ==
    /\ impl \in Impls
    /\ logUrl = TRUE
    /\ config \in [sync : {TRUE}, logLevel : {INFO}, chunkSize : 1..MaxItemsChunkSize]
    /\ ready = TRUE
    /\ dbLogs \in {Rows(n, rev) : n \in 0..MaxItems, rev \in BOOLEAN}
    /\ pendingChange = FALSE
    /\ isInSync = TRUE
    /\ runs = [k \in Slots |-> IF k = 1 THEN [NoRun EXCEPT !.pc = "read"] ELSE NoRun]
    /\ failed = {}
    /\ lastLog = "none"
    /\ effects = Installed(config, logUrl)
    /\ localStorage = {}

ChunkNext == \E k \in Slots : readListing(k)

SpecChunk == ChunkInit /\ [][ChunkNext]_vars

(* ------------------- log() with its outcome observed ------------------- *)
\* the branch a call of log() takes: dropped before readiness, another type,
\* below Config.logLevel, add() rejected and caught, or the row created
LogOutcome(data, type, mediumOk) ==
    IF ~ready THEN "notReady"
    ELSE IF type # "LOG" THEN "otherType"
    ELSE IF ~Admit(data) THEN "belowLevel"
    ELSE IF ~mediumOk \/ \E r \in dbLogs : r.uuid = data.uuid THEN "caught"
    ELSE "created"

\* log(data, type); with mediumOk false the storage medium fails the add()
logObserved(data, type, mediumOk) ==
    /\ lastLog' = LogOutcome(data, type, mediumOk)
    /\ IF mediumOk \/ ~ready
       THEN log(data, type)
       ELSE UNCHANGED <<impl, logUrl, config, ready, dbLogs, pendingChange, isInSync, runs, failed, effects, localStorage>>

\* the configurations of SpecLog: a threshold above, at or below the levels the
\* application logs with; the lowest threshold, which stores every row, is
\* taken with sync disabled
LogConfigs ==
    {c \in [sync : BOOLEAN, logLevel : {DEBUG, INFO, WARNING}, chunkSize : {MaxChunkSize}] :
        c.logLevel = DEBUG => ~c.sync}

\* the provider with any of these configurations and a push endpoint
LogInit ==
    /\ impl \in Impls
    /\ logUrl = TRUE
    /\ config \in LogConfigs
    /\ ready = FALSE
    /\ dbLogs = {}
    /\ pendingChange = TRUE
    /\ isInSync = FALSE
    /\ runs = [k \in Slots |-> NoRun]
    /\ failed = {}
    /\ lastLog = "none"
    /\ effects = Installed(config, logUrl)
    /\ localStorage = {}

\* the calls of log() among the triggers and the runs whose requests succeed
LogNext ==
    \/ dbReady
    \/ \E data \in Log, type \in LogTypes, mediumOk \in BOOLEAN : logObserved(data, type, mediumOk)
    \/ liveQueryNext
    \/ pushTimer
    \/ \E k \in Slots : readListing(k)
    \/ \E k \in Slots, i \in 1..MaxUuid : fetchSettles(k, i, "ok")
    \/ \E k \in Slots, i \in 1..MaxUuid : bulkDelete(k, i, TRUE)
    \/ \E k \in Slots : runEnd(k)

SpecLog == LogInit /\ [][LogNext]_vars

(* --------------------- the configuration document ---------------------- *)

DefaultTimeout == 300000

Timeouts == {DefaultTimeout, 2 * DefaultTimeout}

ConfigFields == {"sync", "timeout", "logLevel", "chunkSize"}

\* a Config with its four fields
FullConfigs ==
    [sync : BOOLEAN, timeout : Timeouts, logLevel : LogLevels, chunkSize : 1..MaxChunkSize]

\* an object without properties
Empty == [f \in {} |-> f]

\* a property that is absent or carries one of the values
Parts(f, values) == {Empty} \cup {f :> v : v \in values}

\* the objects a config response parses to: any subset of the fields
Documents ==
    {a @@ b @@ c @@ d :
        a \in Parts("sync", BOOLEAN), b \in Parts("timeout", Timeouts),
        c \in Parts("logLevel", LogLevels), d \in Parts("chunkSize", 1..MaxChunkSize)}

\* the state update: setConfig(config) in the current provider, the reducer's
\* {...prevState, ...payload.data} in the earlier one
\* The new Config is a new object, so the provider renders again and the
\* effects that depend on it run again; the new subscription emits at once.
\* React drops the update of a provider that is not mounted.
setConfig(doc) ==
    IF effects.phase = "mounted"
    THEN /\ config' = IF impl = "pushSync" THEN doc @@ config ELSE doc
         /\ effects' = runEffects(config', logUrl)
         /\ pendingChange' = TRUE
    ELSE UNCHANGED <<config, effects, pendingChange>>

\* JSON.stringify(config): the text of the document
JSONstringify(doc) == [json |-> doc]

\* a config request, started by an effect, is answered ok with a document:
\* localStorage.setItem('client-log-config', JSON.stringify(config)), then
\* the state update
getConfigFromServer(doc) ==
    /\ effects.phase # "rendered"
    /\ localStorage' = {JSONstringify(doc)}
    /\ setConfig(doc)
    /\ UNCHANGED <<impl, logUrl, ready, dbLogs, isInSync, runs, failed, lastLog>>

\* the request of the first start resolves with a document
loadConfig(doc) == getConfigFromServer(doc)

\* a request of the pull interval resolves with a document
pullConfigInterval(doc) == getConfigFromServer(doc)

ConfigInit ==
    /\ impl \in Impls
    /\ logUrl \in BOOLEAN
    /\ config \in FullConfigs
    /\ ready = FALSE
    /\ dbLogs = {}
    /\ pendingChange = TRUE
    /\ isInSync = FALSE
    /\ runs = [k \in Slots |-> NoRun]
    /\ failed = {}
    /\ lastLog = "none"
    /\ effects = Installed(config, logUrl)
    /\ localStorage = {}

\* a request that is disabled, fails or is answered not ok changes nothing
ConfigNext ==
    \/ \E doc \in Documents : loadConfig(doc)
    \/ \E doc \in Documents : pullConfigInterval(doc)

SpecConfig == ConfigInit /\ [][ConfigNext]_vars

(* ------------------- the effects and their cleanups -------------------- *)

\* a provider that has rendered and whose effects have not run yet
Rendered == [phase |-> "rendered", subs |-> <<>>, timers |-> <<>>, count |-> 0]

\* the effects run after the first render
useEffects ==
    /\ effects.phase = "rendered"
    /\ effects' = runEffects(config, logUrl)
    /\ pendingChange' = TRUE
    /\ UNCHANGED <<impl, logUrl, config, ready, dbLogs, isInSync, runs, failed, lastLog, localStorage>>

\* the parent renders the provider with other server settings
settingsChange ==
    /\ effects.phase = "mounted"
    /\ logUrl' = ~logUrl
    /\ effects' = runEffects(config, logUrl')
    /\ pendingChange' = TRUE
    /\ UNCHANGED <<impl, config, ready, dbLogs, isInSync, runs, failed, lastLog, localStorage>>

\* the provider is unmounted: the cleanups of its effects run
unmount ==
    /\ effects.phase = "mounted"
    /\ effects' = [phase |-> "unmounted",
                   subs |-> Cleanup(effects.subs),
                   timers |-> Cleanup(effects.timers),
                   count |-> effects.count]
    /\ UNCHANGED <<impl, logUrl, config, ready, dbLogs, pendingChange, isInSync, runs, failed, lastLog, localStorage>>

EffectsInit ==
    /\ impl \in Impls
    /\ logUrl \in BOOLEAN
    /\ config \in FullConfigs
    /\ ready = FALSE
    /\ dbLogs = {}
    /\ pendingChange = FALSE
    /\ isInSync = FALSE
    /\ runs = [k \in Slots |-> NoRun]
    /\ failed = {}
    /\ lastLog = "none"
    /\ effects = Rendered
    /\ localStorage = {}

\* the life cycle of the provider, config responses that carry every field,
\* the triggers and the table read of the runs they start, on an empty table
EffectsNext ==
    \/ useEffects
    \/ \E doc \in FullConfigs : loadConfig(doc)
    \/ \E doc \in FullConfigs : pullConfigInterval(doc)
    \/ settingsChange
    \/ unmount
    \/ liveQueryNext
    \/ pushTimer
    \/ \E k \in Slots : readListing(k)

SpecEffects == EffectsInit /\ [][EffectsNext]_vars

(* ----------------------------- cold start ------------------------------ *)

\* The page is loaded again and the provider is constructed with the Config c
\* of its caller (settings.config, or the default literal): useState(...)
\* takes c, every other state of the provider is as after construction, the
\* table and localStorage are what the previous page left.
coldStart(c) ==
    /\ config' = c
    /\ ready' = FALSE
    /\ pendingChange' = FALSE
    /\ isInSync' = FALSE
    /\ runs' = [k \in Slots |-> NoRun]
    /\ failed' = {}
    /\ lastLog' = "none"
    /\ effects' = Rendered
    /\ UNCHANGED <<impl, logUrl, dbLogs, localStorage>>

\* the provider over page loads, with config responses that carry every field
ColdStartNext ==
    \/ useEffects
    \/ \E doc \in FullConfigs : loadConfig(doc)
    \/ \E doc \in FullConfigs : pullConfigInterval(doc)
    \/ \E c \in FullConfigs : coldStart(c)

SpecColdStart == EffectsInit /\ [][ColdStartNext]_vars

(* -------------------- chunkRecords with chunkSize <= 0 ----------------- *)

DegenerateSizes == (0 - MaxNegative)..0

\* the loop with a step of at least one
chunkStepClamped(k) ==
    /\ runs[k].pc = "chunking"
    /\ Len(runs[k].chunks) < MaxIterations
    /\ LET r == runs[k]
           size == Max(config.chunkSize, 1)
       IN IF r.i < Len(r.items)
          THEN LET s == Splice(r.items, r.i, r.i + size)
               IN runs' = [runs EXCEPT ![k] =
                             [r EXCEPT !.items = s.left, !.i = r.i + size,
                                       !.chunks = Append(r.chunks, s.removed)]]
          ELSE runs' = [runs EXCEPT ![k] =
                          [pc |-> "send", listing |-> r.listing,
                           batches |-> Requests(r.chunks)]]
    /\ UNCHANGED <<impl, logUrl, config, ready, dbLogs, pendingChange, isInSync, failed, lastLog, effects, localStorage>>

\* one pass of `for (let i = 0; i < items.length; i += chunkSize)
\* chunks.push(items.splice(i, i + chunkSize))`, followed for MaxIterations
\* iterations; when the test fails the requests are started
chunkStep(k) ==
    /\ runs[k].pc = "chunking"
    /\ Len(runs[k].chunks) < MaxIterations
    /\ LET r == runs[k]
       IN IF r.i < Len(r.items)
          THEN LET s == Splice(r.items, r.i, r.i + config.chunkSize)
               IN runs' = [runs EXCEPT ![k] =
                             [r EXCEPT !.items = s.left, !.i = r.i + config.chunkSize,
                                       !.chunks = Append(r.chunks, s.removed)]]
          ELSE runs' = [runs EXCEPT ![k] =
                          [pc |-> "send", listing |-> r.listing,
                           batches |-> Requests(r.chunks)]]
    /\ UNCHANGED <<impl, logUrl, config, ready, dbLogs, pendingChange, isInSync, failed, lastLog, effects, localStorage>>

\* the loop is synchronous: while a run is in it no other callback runs
InLoop == \E k \in Slots : runs[k].pc = "chunking"

DegenerateInit ==
    /\ impl \in Impls
    /\ logUrl = TRUE
    /\ config \in [sync : {TRUE}, logLevel : {INFO}, chunkSize : DegenerateSizes]
    /\ ready = FALSE
    /\ dbLogs = {}
    /\ pendingChange = TRUE
    /\ isInSync = FALSE
    /\ runs = [k \in Slots |-> NoRun]
    /\ failed = {}
    /\ lastLog = "none"
    /\ effects = Installed(config, logUrl)
    /\ localStorage = {}

DegenerateNext ==
    \/ /\ ~InLoop
       /\ \/ dbReady
          \/ \E data \in Log, type \in LogTypes : submit(data, type)
          \/ liveQueryNext
          \/ pushTimer
          \/ \E k \in Slots : readListing(k)
    \/ \E k \in Slots : chunkStep(k)

SpecDegenerate == DegenerateInit /\ [][DegenerateNext]_vars

(* ---------------------------- scheduling ------------------------------- *)

\* the continuation of `await Promise.all(requests)` is a job of the event
\* loop: once every request has settled it is run
SpecSettle == Spec /\ \A k \in Slots : WF_vars(runEnd(k))

\* the provider with sync enabled and a push endpoint
EventInit ==
    /\ Init
    /\ config.sync
    /\ logUrl

\* the provider without its push interval, with a table that can be read and
\* requests that succeed
EventNext ==
    \/ dbReady
    \/ \E data \in Log, type \in LogTypes : submit(data, type)
    \/ liveQueryNext
    \/ \E k \in Slots : readListing(k)
    \/ \E k \in Slots, i \in 1..MaxUuid : fetchSettles(k, i, "ok")
    \/ \E k \in Slots, i \in 1..MaxUuid : bulkDelete(k, i, TRUE)
    \/ \E k \in Slots : runEnd(k)

\* liveQuery calls its subscriber after a change of the table, and the read
\* of the table is answered
SpecEvent ==
    /\ EventInit
    /\ [][EventNext]_vars
    /\ WF_vars(liveQueryNext)
    /\ WF_vars(\E k \in Slots : readListing(k))

\* the provider with sync enabled, a push endpoint and any chunkSize >= 1
DeliveryInit ==
    /\ Init
    /\ config.sync
    /\ logUrl

\* a step of a run whose table read, requests and cleanups succeed
RunStep ==
    \E k \in Slots :
        \/ readListing(k)
        \/ \E i \in 1..MaxUuid : fetchSettles(k, i, "ok")
        \/ \E i \in 1..MaxUuid : bulkDelete(k, i, TRUE)
        \/ runEnd(k)

DeliveryNext ==
    \/ dbReady
    \/ \E data \in Log, type \in LogTypes : submit(data, type)
    \/ liveQueryNext
    \/ pushTimer
    \/ RunStep

\* the push interval keeps firing and a run that can go on does
SpecDelivery ==
    /\ DeliveryInit
    /\ [][DeliveryNext]_vars
    /\ WF_vars(pushTimer)
    /\ WF_vars(RunStep)

(* ------------------------------ claims -------------------------------- *)
ActiveRuns == {k \in Slots : Active(k)}

BatchIndexes(k) == 1..Len(runs[k].batches)

\* C1: single-flight. After every step at most one invocation of the sync
\* routine is past the guards and not finished, and a step taken while the
\* flag is set starts no run: no slot that was not running is running after it
\* (so a trigger that finds the flag set reads no listing and sends nothing).
C1_SingleFlight ==
    [][/\ Cardinality(ActiveRuns') <= 1
       /\ isInSync => ActiveRuns' \subseteq ActiveRuns]_vars

\* C1 witness: a change notification was delivered while a run was sending:
\* a row was appended after the listing was read (that sets pendingChange) and
\* the notification has been consumed, yet only this one run exists.
C1_Witness ==
    \E k \in Slots :
        /\ runs[k].pc = "send"
        /\ isInSync
        /\ ~pendingChange
        /\ \E r \in dbLogs : r \notin Range(runs[k].listing)

\* C2: while any request of a run (its transport call or its bulkDelete) is
\* in flight, the sync-in-progress flag is set.
C2_FlagHeldWhileInFlight ==
    \A k \in Slots : \A i \in BatchIndexes(k) :
        runs[k].batches[i].st \in {"fetch", "delete"} => isInSync

\* C2 witness: one request of the run has settled, another is still in flight.
C2_Witness ==
    \E k \in Slots : \E i, j \in BatchIndexes(k) :
        /\ runs[k].batches[i].st = "done"
        /\ runs[k].batches[j].st \in {"fetch", "delete"}
        /\ isInSync

\* rows of failed chunks are stored: those of the run in progress and those of
\* the latest finished run
FailedRowsStored ==
    /\ \A k \in Slots : FailedRows(k) \subseteq dbLogs
    /\ failed \subseteq dbLogs

\* C3: at-least-once retry. The rows of a chunk whose transport call threw or
\* was answered not ok stay in the table during the rest of the run and after
\* it, and the listing read by the next run contains every one of them.
C3_FailedBatchRetried ==
    [][/\ FailedRowsStored'
       /\ \A k \in Slots :
            (runs[k].pc = "read" /\ runs'[k].pc = "send")
                => failed \subseteq Range(runs'[k].listing)]_vars

\* C3 witness: a run with a failed chunk has ended, its rows are in the table,
\* and the next run has passed the guards and awaits its listing
C3_Witness ==
    /\ failed # {}
    /\ failed \subseteq dbLogs
    /\ \E k \in Slots : runs[k].pc = "read"

\* the rows of chunk i of run k
BatchRows(k, i) == Range(runs[k].batches[i].logs)

\* the step is the successful cleanup of chunk i of run k
Deletes(k, i) ==
    /\ i \in BatchIndexes(k)
    /\ runs[k].batches[i].st = "delete"
    /\ i \in 1..Len(runs'[k].batches)
    /\ runs'[k].batches[i].st = "done"
    /\ runs'[k].batches[i].res = "ok"

\* C4: no row is dropped before confirmed delivery. Every row a step removes
\* from the table is in the body of a request that was answered ok.
C4_DeletedWereTransmitted ==
    [][\A r \in dbLogs \ dbLogs' :
          \E k \in Slots : \E i \in BatchIndexes(k) :
              /\ runs[k].batches[i].res = "ok"
              /\ r \in Range(RequestBody(runs[k].batches[i].logs))]_vars

\* C5: batch delete isolation. The cleanup after a successful chunk removes
\* the rows of that chunk, all of them and nothing else; and a step removes
\* rows from the table only if it is such a cleanup.
C5_DeleteIsolation ==
    [][/\ \A k \in Slots : \A i \in BatchIndexes(k) :
            Deletes(k, i) => /\ BatchRows(k, i) \subseteq dbLogs
                             /\ dbLogs' = dbLogs \ BatchRows(k, i)
       /\ dbLogs \ dbLogs' # {} => \E k \in Slots : \E i \in BatchIndexes(k) : Deletes(k, i)]_vars

\* C5 witness: a chunk has been delivered and cleaned up while a sibling chunk
\* is unresolved, a row of the listing is in no chunk, and all of those rows
\* are still in the table.
C5_Witness ==
    \E k \in Slots : \E i, j \in BatchIndexes(k) :
        /\ runs[k].batches[i].st = "done" /\ runs[k].batches[i].res = "ok"
        /\ BatchRows(k, i) \cap dbLogs = {}
        /\ runs[k].batches[j].st = "fetch"
        /\ BatchRows(k, j) \subseteq dbLogs
        /\ \E r \in dbLogs : /\ r \in Range(runs[k].listing)
                             /\ \A b \in BatchIndexes(k) : r \notin BatchRows(k, b)

\* the step settles the transport call of chunk i of run k as a failure
Fails(k, i) ==
    /\ i \in BatchIndexes(k)
    /\ runs[k].batches[i].st = "fetch"
    /\ i \in 1..Len(runs'[k].batches)
    /\ runs'[k].batches[i].res \in {"notOk", "throw"}

\* C6: per-batch failure isolation. The failure of a chunk leaves the run
\* going, the flag set, the table and every sibling request as they were; a
\* sibling answered ok afterwards is still cleaned up; and a run that is
\* sending never ends rejected: it goes on sending or ends idle with the flag
\* cleared.
C6_FailureIsolation ==
    [][\A k \in Slots :
          /\ \A i \in BatchIndexes(k) :
                Fails(k, i) =>
                    /\ runs'[k].pc = "send"
                    /\ isInSync'
                    /\ dbLogs' = dbLogs
                    /\ \A j \in BatchIndexes(k) \ {i} : runs'[k].batches[j] = runs[k].batches[j]
          /\ \A j \in BatchIndexes(k) :
                (Deletes(k, j) /\ FailedRows(k) # {}) => dbLogs' = dbLogs \ BatchRows(k, j)
          /\ runs[k].pc = "send" =>
                \/ runs'[k].pc = "send"
                \/ runs'[k].pc = "idle" /\ ~isInSync']_vars

\* C6 witness: in one run a chunk has failed by a throw and a sibling chunk
\* has been delivered and cleaned up; every request has settled.
C6_Witness ==
    \E k \in Slots : \E i, j \in BatchIndexes(k) :
        /\ runs[k].pc = "send" /\ AllSettled(k)
        /\ runs[k].batches[i].res = "throw"
        /\ runs[k].batches[j].res = "ok"
        /\ BatchRows(k, j) \cap dbLogs = {}
        /\ BatchRows(k, i) \subseteq dbLogs

\* the rows put in some chunk of run k
BatchedRows(k) == UNION {BatchRows(k, i) : i \in BatchIndexes(k)}

\* C7: chunking coverage. For chunkSize >= 1 the chunks of a run together
\* hold every row of the listing the run has read.
C7_ChunksCoverListing ==
    \A k \in Slots :
        runs[k].pc = "send" => BatchedRows(k) = Range(runs[k].listing)

\* C8: chunk size bound. For chunkSize >= 1 no chunk of a run holds more than
\* Config.chunkSize rows.
C8_ChunkSizeBound ==
    \A k \in Slots : \A i \in BatchIndexes(k) :
        Len(runs[k].batches[i].logs) <= config.chunkSize

\* C9: chunk order and disjointness. The listing is in ascending timestamp
\* order; every chunk is a contiguous run of the listing, in listing order;
\* no row is in two chunks; and the chunks follow one another in ascending
\* listing order (every row of an earlier chunk precedes every row of a later one).
C9_ChunksOrderedDisjoint ==
    \A k \in Slots :
        runs[k].pc = "send" =>
            LET L == runs[k].listing
                B == runs[k].batches
            IN /\ \A a, b \in 1..Len(L) : a < b => Before(L[a], L[b])
               /\ \A i \in 1..Len(B) :
                     \E s \in 1..Len(L) :
                         /\ s + Len(B[i].logs) - 1 <= Len(L)
                         /\ B[i].logs = SubSeq(L, s, s + Len(B[i].logs) - 1)
               /\ \A i, j \in 1..Len(B) :
                     i < j => /\ Range(B[i].logs) \cap Range(B[j].logs) = {}
                              /\ \A x \in Range(B[i].logs), y \in Range(B[j].logs) : Before(x, y)

\* C9 witness: a listing whose timestamp order runs against its uuid order has
\* been cut into two or more chunks, the second not adjacent to the first.
C9_Witness ==
    \E k \in Slots :
        /\ runs[k].pc = "send"
        /\ Len(runs[k].batches) >= 2
        /\ runs[k].listing[1].uuid > runs[k].listing[2].uuid
        /\ runs[k].batches[2].logs[1] # runs[k].listing[Len(runs[k].batches[1].logs) + 1]

CeilDiv(n, c) == (n + c - 1) \div c

\* every request of run k was answered ok
AllOk(k) == \A i \in BatchIndexes(k) : runs[k].batches[i].res = "ok"

\* C10: full drain in one run. A run on n rows with chunkSize c >= 1 issues
\* ceil(n/c) requests; and when every one of them succeeded, the table is empty
\* as the run returns to idle unless rows were submitted during the run: a row
\* still stored is either not of the listing or of a chunk that was cleaned up
\* (it was appended again after the cleanup).
C10_FullDrain ==
    [][\A k \in Slots :
          /\ runs'[k].pc = "send" =>
                Len(runs'[k].batches) = CeilDiv(Len(runs'[k].listing), config.chunkSize)
          /\ (runs[k].pc = "send" /\ runs'[k].pc = "idle" /\ AllOk(k)) =>
                \A r \in dbLogs' : r \notin Range(runs[k].listing) \/ r \in BatchedRows(k)]_vars

\* C11: severity gate. A call of log() with a row whose level is strictly
\* below the Config.logLevel in force leaves the table as it was, whatever the
\* state, the type and the configuration: no step that changes the table is
\* such a call.
C11_SeverityGate ==
    [][dbLogs' # dbLogs =>
          \A data \in Log, type \in LogTypes, mediumOk \in BOOLEAN :
              data.level < config.logLevel => ~logObserved(data, type, mediumOk)]_vars

\* C11 witness: on a ready provider the latest call of log() was below the
\* threshold, and the table is empty.
C11_Witness ==
    /\ ready
    /\ lastLog = "belowLevel"
    /\ dbLogs = {}

\* the call log(data, type) is one the provider has to store: it is ready, the
\* type is LOG, the level is at or above the threshold, the uuid is not stored
Admissible(data, type) ==
    /\ ready
    /\ type = "LOG"
    /\ data.level >= config.logLevel
    /\ \A r \in dbLogs : r.uuid # data.uuid

\* C12: admission. A call of log() on a ready provider with type LOG, a level
\* at or above Config.logLevel (equality included) and a uuid that is not stored
\* appends exactly that row: the table after the call is the table before it
\* plus the row. And a row leaves the table only in the cleanup of a chunk that
\* holds it and whose request was answered ok.
C12_Admission ==
    [][/\ \A data \in Log, type \in LogTypes :
            (Admissible(data, type) /\ logObserved(data, type, TRUE))
                => dbLogs' = dbLogs \cup {data}
       /\ \A r \in dbLogs \ dbLogs' :
            \E k \in Slots : \E i \in BatchIndexes(k) :
                Deletes(k, i) /\ r \in BatchRows(k, i)]_vars

\* C12 witness: the latest call of log() stored its row, the table holds a row
\* whose level is the threshold itself, and a run has cleaned a chunk up.
C12_Witness ==
    /\ lastLog = "created"
    /\ \E r \in dbLogs : r.level = config.logLevel
    /\ \E k \in Slots : \E i \in BatchIndexes(k) :
          runs[k].batches[i].st = "done" /\ runs[k].batches[i].res = "ok"

\* C13: a call of log() made before the provider is ready is dropped, not
\* queued. The call leaves the table as it was, and its row never shows up
\* later: every row that enters the table, in any step, is the row of a call of
\* log() made in that very step on a ready provider.
C13_DroppedBeforeReady ==
    [][/\ ~ready =>
            \A data \in Log, type \in LogTypes, mediumOk \in BOOLEAN :
                logObserved(data, type, mediumOk) => dbLogs' = dbLogs
       /\ \A r \in dbLogs' \ dbLogs : ready /\ logObserved(r, "LOG", TRUE)]_vars

\* C13 witness: the latest call of log() came before readiness, the provider
\* has become ready since, the change notification has been delivered, and the
\* table is empty.
C13_Witness ==
    /\ lastLog = "notReady"
    /\ ready
    /\ ~pendingChange
    /\ dbLogs = {}

\* the rows with which a call of log() of type LOG reaches db.logs.add
Added == {data \in Log : ready /\ data.level >= config.logLevel}

\* db.logs.add(data) is rejected
Rejected(data, mediumOk) == ~mediumOk \/ \E r \in dbLogs : r.uuid = data.uuid

\* C14: append errors are contained. A call of log() whose add is rejected,
\* the uuid being stored already or the medium failing, leaves the table as it
\* was (no step that changes the table is such a call) and ends in the catch
\* block of log(); and after every step the stored uuids are unique.
C14_AppendErrorContained ==
    [][/\ dbLogs' # dbLogs \/ lastLog' # "caught" =>
            \A data \in Added, mediumOk \in BOOLEAN :
                Rejected(data, mediumOk) => ~logObserved(data, "LOG", mediumOk)
       /\ \A r1, r2 \in dbLogs' : r1.uuid = r2.uuid => r1 = r2]_vars

\* C14 witness: the latest call of log() ended in the catch block while the
\* table holds a row.
C14_Witness ==
    /\ lastLog = "caught"
    /\ dbLogs # {}

\* C15: sync-disabled guard. While Config.sync is false no step, and so no
\* trigger of the sync routine, sets the flag, starts a run (which would read
\* the table and send requests) or removes a row.
C15_SyncDisabledGuard ==
    [][~config.sync =>
          /\ ~isInSync'
          /\ \A k \in Slots : runs'[k] = NoRun
          /\ dbLogs \subseteq dbLogs']_vars

\* C15 witness: with Config.sync false the table holds rows and the change
\* notification of their append has invoked the routine.
C15_Witness ==
    /\ ~config.sync
    /\ dbLogs # {}
    /\ ~pendingChange

\* C16: local-only mode. With no push endpoint in the settings the sync
\* routine returns at once from every trigger: the flag is never set and no run
\* is ever started, so the table is never read for sending, no request is made
\* and no row is removed.
C16_LocalOnly ==
    ~logUrl =>
        /\ ~isInSync
        /\ \A k \in Slots : runs[k] = NoRun

\* C17: the config update is a shallow merge. When a document carrying only
\* some of the fields is applied, at the first start or by the pull interval,
\* the fields it carries take its values and every other field keeps the value
\* it had.
C17_ShallowMerge ==
    [][\A doc \in Documents :
          (loadConfig(doc) \/ pullConfigInterval(doc)) =>
              /\ \A f \in DOMAIN doc : f \in DOMAIN config' /\ config'[f] = doc[f]
              /\ \A f \in DOMAIN config \ DOMAIN doc :
                    f \in DOMAIN config' /\ config'[f] = config[f]]_vars

\* every request of run k has settled: answered, thrown, cleaned up or failed
\* in its cleanup
Settled(k) ==
    /\ runs[k].pc = "send"
    /\ \A i \in BatchIndexes(k) : runs[k].batches[i].st = "done"

\* C19: return to idle. Once all the requests of a run have settled, whatever
\* mix of ok answers, not-ok answers, thrown transport errors and failed
\* deletes, the run ends and the flag is cleared.
C19_ReturnToIdle ==
    \A k \in Slots : Settled(k) ~> (~isInSync /\ runs[k].pc = "idle")

\* C19 witness: all the requests of a run have settled, one of them by a
\* failed transport call and another by a failed delete.
C19_Witness ==
    \E k \in Slots :
        /\ Settled(k)
        /\ isInSync
        /\ \E i \in BatchIndexes(k) : runs[k].batches[i].res \in {"notOk", "throw"}
        /\ \E i \in BatchIndexes(k) : runs[k].batches[i].res = "deleteFailed"

\* rows are stored, their change notification is pending, no run is going on,
\* sync is enabled and the provider has an endpoint to push to
AppendedWhileIdle ==
    /\ dbLogs # {}
    /\ pendingChange
    /\ ~isInSync
    /\ config.sync
    /\ ~NoEndpoint

\* run k has read its listing and has requests in flight
Transmitting(k) ==
    /\ runs[k].pc = "send"
    /\ \E i \in BatchIndexes(k) : runs[k].batches[i].st = "fetch"

\* C20: event-driven trigger. Every change of the table, insert or delete,
\* raises a change notification, and the notification invokes the sync
\* routine: with no push interval at all, rows appended while no run is going
\* on, with sync enabled and an endpoint, lead to a run that sends a chunk.
C20_EventDrivenTrigger ==
    /\ [][dbLogs' # dbLogs => pendingChange']_vars
    /\ AppendedWhileIdle ~> \E k \in Slots : Transmitting(k)

\* C20 witness: the notification of an append has been delivered and a run
\* has requests in flight for the rows.
C20_Witness ==
    /\ ~pendingChange
    /\ \E k \in Slots : Transmitting(k) /\ Range(runs[k].listing) = dbLogs

\* every stored row is removed at some later time
DeliveredEventually == \A r \in Log : (r \in dbLogs) ~> (r \notin dbLogs)

\* if from some time on no call of log() stores a row, the table becomes
\* empty and stays empty
DrainsWhenQuiet ==
    <>[][\A data \in Log, type \in LogTypes : ~submit(data, type)]_vars
        => <>[](dbLogs = {})

\* C18: eventual delivery. With sync enabled, an endpoint, chunkSize >= 1,
\* requests that succeed and a push interval that keeps firing, every stored
\* row is eventually removed by the cleanup of a delivered chunk; and if the
\* submissions stop, the table eventually becomes and stays empty.
C18_EventualDelivery == DeliveredEventually /\ DrainsWhenQuiet

\* C21: empty table. A run that is past the guards and whose table read is
\* answered with no row starts no request and no cleanup, and it is over at
\* once: its slot is free, the flag is cleared and the table is as it was, so
\* the guards of a later trigger pass.
C21_EmptyStore ==
    [][\A k \in Slots :
          (runs[k].pc = "read" /\ dbLogs = {} /\ runs'[k].pc \notin {"read", "rejected"})
              => /\ runs'[k] = NoRun
                 /\ ~isInSync'
                 /\ k \in FreeSlots'
                 /\ dbLogs' = dbLogs]_vars

\* C21 witness: on a provider that is not ready yet, whose table has always
\* been empty, the first notification has invoked the routine with sync
\* enabled and an endpoint, and the flag is clear again.
C21_Witness ==
    /\ ~ready
    /\ dbLogs = {}
    /\ ~pendingChange
    /\ config.sync
    /\ ~NoEndpoint
    /\ ~isInSync
    /\ \A k \in Slots : runs[k] = NoRun

\* the closure of the render the provider shows
Current == Closure(config, logUrl)

\* at most one subscription and one push timer, both of the current render;
\* none once the provider is unmounted
ScopedTriggers ==
    /\ Len(effects.subs) <= 1
    /\ Len(effects.timers) <= 1
    /\ \A i \in 1..Len(effects.subs) : effects.subs[i] = Current
    /\ \A i \in 1..Len(effects.timers) :
          /\ effects.timers[i] = Current
          /\ effects.timers[i].config.timeout = config.timeout
    /\ effects.phase = "unmounted" => effects.subs = <<>> /\ effects.timers = <<>>

\* C22: scoped triggers. When the Config or the server settings change, the
\* subscription and the push timer of the previous render are released before
\* the new ones are installed: in every state there is at most one
\* subscription and one push timer, the timer runs with the timeout of the
\* current Config, and once the provider is unmounted no step starts a run.
C22_ScopedTriggers ==
    /\ []ScopedTriggers
    /\ [][effects.phase = "unmounted" => ActiveRuns' \subseteq ActiveRuns]_vars

\* C22 witness: the effects have run again after a change, one subscription
\* and one push timer are installed, and they are those of the current render.
C22_Witness ==
    /\ effects.phase = "mounted"
    /\ effects.count >= 2
    /\ effects.subs = <<Current>>
    /\ effects.timers = <<Current>>

\* JSON.parse of a stored text
JSONparse(text) == text.json

\* C23: cold-start fallback. A config response that is answered ok stores the
\* fetched Config under the key 'client-log-config'; and when the page is
\* loaded again while such an item is stored, the provider starts with the
\* Config of that item and not with the Config its caller supplies.
C23_ColdStartFallback ==
    [][/\ \A doc \in FullConfigs :
            (loadConfig(doc) \/ pullConfigInterval(doc))
                => localStorage' = {JSONstringify(doc)}
       /\ \A c \in FullConfigs :
            (coldStart(c) /\ localStorage # {})
                => \E item \in localStorage : config' = JSONparse(item)]_vars

\* run k is in the loop, has taken no row out of the listing, holds only
\* empty chunks, has started no request, and the test of the loop still passes
LoopsOnEmptyChunks(k) ==
    /\ isInSync
    /\ runs[k].items = runs[k].listing
    /\ \A j \in 1..Len(runs[k].chunks) : runs[k].chunks[j] = <<>>
    /\ runs[k].batches = <<>>
    /\ runs[k].i < Len(runs[k].items)

\* C24: degenerate chunk size. With chunkSize <= 0 and a listing that is not
\* empty, chunkRecords keeps pushing empty chunks and its loop test never
\* fails: the run stays in the loop with the flag set, it starts no request
\* and the table keeps every row.
C24_DegenerateChunkSize ==
    /\ [](\A k \in Slots : runs[k].pc = "chunking" => LoopsOnEmptyChunks(k))
    /\ [][\A k \in Slots :
            runs[k].pc = "chunking" => runs'[k].pc = "chunking" /\ dbLogs' = dbLogs]_vars

\* C24 witness: a run has gone through the loop MaxIterations times on a
\* table that holds rows.
C24_Witness ==
    \E k \in Slots :
        /\ runs[k].pc = "chunking"
        /\ Len(runs[k].chunks) = MaxIterations
        /\ dbLogs # {}

\* C25: a storage failure does not wedge the provider. When the table read
\* of a run fails after the flag was set, the routine catches the error and
\* clears the flag: the flag is never set while no run is active, so later
\* triggers can start a run.
C25_StorageFailureContained ==
    isInSync => ActiveRuns # {}

\* the rows stored now that run k has not read: they were appended after the
\* run took its listing
AppendedDuring(k) == dbLogs \ Range(runs[k].listing)

====
